---- MODULE Spec2Model ----
(***************************************************************************)
(* Generation pipeline and task state machine of the story-to-video        *)
(* application: the scene ledger (scenes table), the artifact store        *)
(* (images and videos tables), the project stage, and the HTTP handlers    *)
(* that drive them.  Every handler is cut at its database calls: one       *)
(* action is one database read or write together with the local            *)
(* computation and the network calls that precede it, so that two          *)
(* requests interleave exactly where the code awaits the database.         *)
(***************************************************************************)
EXTENDS Integers, Sequences, FiniteSets, TLC

VARIABLES stage, scenes, images, videos, req, batch, resp, now, nextId, nextTask,
          client

vars == <<stage, scenes, images, videos, req, batch, resp, now, nextId, nextTask,
         client>>

(***************************************************************************)
(* Bounds of the model.                                                    *)
(***************************************************************************)
MaxSceneId == 2
MaxArtifacts == 2
MaxTasks == 2
MaxTicks == 2
TickMs == 450000

SceneIds == 1..MaxSceneId
Slots == {"r1", "r2"}

(***************************************************************************)
(* Types of the database schema.                                           *)
(***************************************************************************)
VALID_STAGES == <<"draft", "scenes", "images", "videos", "completed">>

ProjectStage == {VALID_STAGES[i] : i \in DOMAIN VALID_STAGES}

StageRank(s) == CHOOSE i \in DOMAIN VALID_STAGES : VALID_STAGES[i] = s

MediaStatus == {"pending", "processing", "completed", "failed"}

\* A row of the scenes table; live = FALSE stands for "no such row".
NoScene ==
  [live |-> FALSE, description |-> "d0", description_confirmed |-> FALSE,
   image_status |-> "pending", image_confirmed |-> FALSE,
   video_status |-> "pending", video_confirmed |-> FALSE]

\* The row createScenes inserts.
NewScene == [NoScene EXCEPT !.live = TRUE]

Live(s) == s \in SceneIds /\ scenes[s].live

LiveScenes == {s \in SceneIds : scenes[s].live}

\* maxWaitTime of waitForVideoCompletion, in milliseconds.
MaxWaitTime == 600000

(***************************************************************************)
(* Artifact store.  images[s] is the list of versions of the image rows of *)
(* scene s in insertion order; videos[s] is the list of its video rows.    *)
(***************************************************************************)
RECURSIVE MaxOf(_)
MaxOf(S) == IF S = {} THEN 0
            ELSE LET x == CHOOSE y \in S : TRUE
                     m == MaxOf(S \ {x})
                 IN IF x > m THEN x ELSE m

ImageVersions(s) == {images[s][i] : i \in DOMAIN images[s]}

VideoVersions(s) == {videos[s][i].version : i \in DOMAIN videos[s]}

\* getNextVersion: 1 when the scene has no row of the table, else max + 1.
getNextVersion(versions) ==
  IF versions = {} THEN 1 ELSE MaxOf(versions) + 1

\* getLatestImage: the image row of highest version, 0 when there is none.
getLatestImage(s) == MaxOf(ImageVersions(s))

\* Index of the video row that stores job handle t (getVideoByTaskId), 0 if none.
VideoIndexOfTask(s, t) ==
  IF \E i \in DOMAIN videos[s] : videos[s][i].task_id = t
  THEN CHOOSE i \in DOMAIN videos[s] : videos[s][i].task_id = t
  ELSE 0

getVideoByTaskId(t) ==
  IF \E s \in SceneIds : VideoIndexOfTask(s, t) # 0
  THEN CHOOSE s \in SceneIds : VideoIndexOfTask(s, t) # 0
  ELSE 0

(***************************************************************************)
(* Ledger writes.                                                          *)
(***************************************************************************)
\* A ledger write that drops the failed status.
updateSceneImageStatusOff(s, status) ==
  scenes' = [scenes EXCEPT ![s].image_status = IF status = "failed" THEN @ ELSE status]

updateSceneImageStatus(s, status) ==
  scenes' = [scenes EXCEPT ![s].image_status = status]

\* A status write of the video track that does not reach the row.
updateSceneVideoStatusOff(s, status) ==
  scenes' = scenes

updateSceneVideoStatus(s, status) ==
  scenes' = [scenes EXCEPT ![s].video_status = status]

updateProjectStage(st) == stage' = st

(***************************************************************************)
(* SceneVideoList: the page that shows the videos of a project.  Its local *)
(* copy of the scenes, the interval timers of the browser and pollingRef.  *)
(***************************************************************************)
\* The local copy: video_status[s] and whether scene s carries a video with a
\* task_id; pollingRef is 0 for null; timers are the intervals that are set;
\* generating and polling are the fetches in flight; ev and polled tell what
\* the step just taken was and which scenes a tick has polled.
MaxTimers == 2

TimerIds == 1..MaxTimers

\* The scenes a tick polls: processing, with a job handle in the local copy.
processingScenesOff(c) ==
  {s \in c.list : c.video_status[s] = "processing"}

processingScenes(c) ==
  {s \in c.list : c.video_status[s] = "processing" /\ c.task_id[s]}

processingCount(c) ==
  Cardinality({s \in c.list : c.video_status[s] = "processing"})

pendingCount(c) ==
  Cardinality({s \in c.list : c.video_status[s] \in {"pending", "failed"}})

\* clearInterval(pollingRef.current); pollingRef.current = null.
clearPolling(c) ==
  IF c.pollingRef = 0 THEN c
  ELSE [c EXCEPT !.timers = @ \ {c.pollingRef}, !.pollingRef = 0]

\* startGlobalPolling: the interval of pollingRef is cleared, a new one is set.
startGlobalPolling(c) ==
  LET cleared == IF c.pollingRef = 0 THEN c
                 ELSE [c EXCEPT !.timers = @ \ {c.pollingRef}]
      id == CHOOSE i \in TimerIds \ cleared.timers :
              \A j \in TimerIds \ cleared.timers : i <= j
  IN [cleared EXCEPT !.timers = @ \cup {id}, !.pollingRef = id]

\* The effect on [processingCount]: when the count differs from the one of
\* the last render, the cleanup of the last render runs (it sees the old
\* count), then the effect of this render.
useEffect(c, oldCount) ==
  IF processingCount(c) = oldCount THEN c
  ELSE LET cleaned == IF c.pollingRef # 0 /\ oldCount = 0 THEN clearPolling(c) ELSE c
       IN IF processingCount(cleaned) > 0 /\ cleaned.pollingRef = 0
          THEN startGlobalPolling(cleaned)
          ELSE cleaned

\* useState(initialScenes) and the first run of the effect.
Mount(sc, vs) ==
  LET list == {s \in DOMAIN sc : sc[s].live}
      c == [list |-> list,
            video_status |-> [s \in DOMAIN sc |-> sc[s].video_status],
            task_id |-> [s \in DOMAIN sc |-> Len(vs[s]) > 0],
            pollingRef |-> 0, timers |-> {},
            generating |-> {}, polling |-> {},
            ev |-> "none", polled |-> {}]
  IN IF processingCount(c) > 0 THEN startGlobalPolling(c) ELSE c

\* A step of the page: the new local state after the render and its effect.
Render(c, ev, polled) ==
  /\ client' = [useEffect(c, processingCount(client)) EXCEPT !.ev = ev, !.polled = polled]
  /\ UNCHANGED <<stage, scenes, images, videos, req, batch, resp, now, nextId, nextTask>>

\* handleGenerateVideo: the local status becomes processing, the POST is sent.
ClientGenerate(s) ==
  /\ s \in client.list \ client.generating
  /\ client.video_status[s] # "processing"
  /\ Render([client EXCEPT !.video_status[s] = "processing",
                           !.generating = @ \cup {s}], "generate", {})

\* The POST answered 201: the video with its task_id goes into the local copy;
\* polling is started when pollingRef is null.
ClientGenerateOk(s) ==
  /\ s \in client.generating
  /\ Cardinality(client.timers) < MaxTimers
  /\ LET c == [client EXCEPT !.video_status[s] = "processing", !.task_id[s] = TRUE,
                             !.generating = @ \ {s}]
     IN Render(IF c.pollingRef = 0 THEN startGlobalPolling(c) ELSE c, "generated", {})

\* The POST failed: the local status becomes failed.
ClientGenerateFail(s) ==
  /\ s \in client.generating
  /\ Render([client EXCEPT !.video_status[s] = "failed", !.generating = @ \ {s}],
            "generated", {})

\* handleGenerateAll: the answer of POST /api/generate/videos lists the scenes
\* it worked on and which of them succeeded; startGlobalPolling is called.
ClientGenerateAll(results, ok) ==
  /\ pendingCount(client) > 0
  /\ client.generating = {}
  /\ results \subseteq {s \in client.list : client.video_status[s] = "pending"}
  /\ ok \subseteq results
  /\ Cardinality(client.timers) < MaxTimers \/ client.pollingRef # 0
  /\ LET c == [client EXCEPT
                 !.video_status = [s \in DOMAIN @ |->
                                     IF s \in ok THEN "processing"
                                     ELSE IF s \in results THEN "failed" ELSE @[s]],
                 !.task_id = [s \in DOMAIN @ |-> @[s] \/ s \in ok]]
     IN Render(startGlobalPolling(c), "generateAll", {})

\* An interval fires.  No scene to poll: the interval of pollingRef is
\* cleared; otherwise pollVideoStatus is called for each of them.
ClientTick(t) ==
  /\ t \in client.timers
  /\ IF processingScenes(client) = {}
     THEN Render(clearPolling(client), "tick", {})
     ELSE Render([client EXCEPT !.polling = @ \cup processingScenes(client)],
                 "tick", processingScenes(client))

\* pollVideoStatus gets its answer: completed with a video and failed go into
\* the local copy, anything else (an error too) changes nothing.
ClientPollAnswer(s, status) ==
  /\ s \in client.polling
  /\ status \in MediaStatus \cup {"error"}
  /\ LET c == [client EXCEPT !.polling = @ \ {s}]
     IN Render(IF status \in {"completed", "failed"}
               THEN [c EXCEPT !.video_status[s] = status]
               ELSE c, "polled", {})

(***************************************************************************)
(* Request slots.  A slot runs one single-unit handler at a time.          *)
(***************************************************************************)
IdleReq == [op |-> "none", pc |-> "idle", scene |-> 0, ver |-> 0, task |-> 0,
            count |-> 0, pstage |-> "none", err |-> "none",
            adapter |-> "none", i |-> 0, calls |-> 0, sleeps |-> 0,
            body |-> "d0", deletedCount |-> 0]

Idle(r) == req[r].pc = "idle"

\* The answer of the step just taken: the handler that answered, the scene of
\* the request, the HTTP status and the status field of the body.
Answer(op, s, code, status) == [op |-> op, scene |-> s, code |-> code, status |-> status]

\* The step just taken answered no request.
NoAnswer == Answer("none", 0, 0, "none")

\* The handler of slot r answers with HTTP status `code` and ends.
Return(r, code) ==
  /\ req' = [req EXCEPT ![r] = IdleReq]
  /\ resp' = Answer(req[r].op, req[r].scene, code, "none")

\* The catch block of a generation route: the HTTP status of an error.  An
\* AIGenerationError is answered 500, 'not found or access denied' 404, and
\* whatever else was thrown 500.
ErrorStatus(err) ==
  CASE err = "ai" -> 500
    [] err = "notfound" -> 404
    [] OTHER -> 500

\* An error is thrown inside the handler of slot r: on to its catch block.
Throw(r, err) == req' = [req EXCEPT ![r].pc = "fail", ![r].err = err]

\* The handler answers before it has anything to remember.
Reject(r, op, s, code) ==
  /\ req' = [req EXCEPT ![r] = IdleReq]
  /\ resp' = Answer(op, s, code, "none")

Goto(r, pc) == req' = [req EXCEPT ![r].pc = pc]

IdleBatch == [pc |-> "idle", track |-> "none", queue |-> <<>>, results |-> <<>>,
              ver |-> 0, task |-> 0]

Init ==
  /\ stage = "draft"
  /\ scenes = [s \in SceneIds |-> NoScene]
  /\ images = [s \in SceneIds |-> <<>>]
  /\ videos = [s \in SceneIds |-> <<>>]
  /\ req = [r \in Slots |-> IdleReq]
  /\ batch = IdleBatch
  /\ resp = NoAnswer
  /\ now = 0
  /\ client = Mount(scenes, videos)
  /\ nextId = 1
  /\ nextTask = 1

(***************************************************************************)
(* POST /api/generate/scenes and POST /api/generate/scenes/regenerate.     *)
(* The provider call comes first; the old scenes are deleted only after it *)
(* has answered.                                                           *)
(***************************************************************************)
\* A delete that removes no row.
deleteScenesByProjectIdOff ==
  /\ scenes' = scenes
  /\ images' = images
  /\ videos' = videos

\* deleteScenesByProjectId: every scene row goes, its artifacts cascade.
deleteScenesByProjectId ==
  /\ scenes' = [s \in SceneIds |-> NoScene]
  /\ images' = [s \in SceneIds |-> <<>>]
  /\ videos' = [s \in SceneIds |-> <<>>]

\* getProjectById: the handler reads the project (its stage among the rest).
SceneGenStart(r, op) ==
  /\ Idle(r)
  /\ op \in {"scenes", "regen"}
  /\ nextId <= MaxSceneId
  /\ req' = [req EXCEPT ![r] = [IdleReq EXCEPT !.op = op, !.pc = "provider",
                                               !.pstage = stage]]
  /\ resp' = NoAnswer
  /\ UNCHANGED <<client, stage, scenes, images, videos, batch, now, nextId, nextTask>>

\* storyToScenes / regenerateScenes failed: 500, nothing written.
SceneGenProviderFail(r) ==
  /\ req[r].pc = "provider"
  /\ Return(r, 500)
  /\ UNCHANGED <<client, stage, scenes, images, videos, batch, now, nextId, nextTask>>

\* The provider answered with n scenes; the old scenes are deleted.
SceneGenDelete(r, n) ==
  /\ req[r].pc = "provider"
  /\ n >= 1
  /\ nextId + n - 1 <= MaxSceneId
  /\ deleteScenesByProjectId
  /\ req' = [req EXCEPT ![r].pc = "create", ![r].count = n,
                         ![r].deletedCount = Cardinality(LiveScenes)]
  /\ resp' = NoAnswer
  /\ UNCHANGED <<client, stage, batch, now, nextId, nextTask>>

\* createScenes: n fresh rows in ascending order_index.
createScenes(n) ==
  /\ scenes' = [s \in SceneIds |->
                  IF s \in nextId..(nextId + n - 1) THEN NewScene ELSE scenes[s]]
  /\ nextId' = nextId + n

SceneGenCreate(r) ==
  /\ req[r].pc = "create"
  /\ createScenes(req[r].count)
  /\ Goto(r, "stage")
  /\ resp' = NoAnswer
  /\ UNCHANGED <<client, stage, images, videos, batch, now, nextTask>>

\* The insert of createScenes failed: the catch block answers 500; the old
\* scenes are deleted already.
SceneGenCreateFail(r) ==
  /\ req[r].pc = "create"
  /\ Return(r, 500)
  /\ UNCHANGED <<client, stage, scenes, images, videos, batch, now, nextId, nextTask>>

\* generate: the stage is set to scenes; regenerate: only when the stage read
\* at the start of the request was not scenes.
SceneGenStage(r) ==
  /\ req[r].pc = "stage"
  /\ IF req[r].op = "scenes" \/ req[r].pstage # "scenes"
     THEN updateProjectStage("scenes")
     ELSE UNCHANGED stage
  /\ Return(r, 201)
  /\ UNCHANGED <<client, scenes, images, videos, batch, now, nextId, nextTask>>

(***************************************************************************)
(* PATCH /api/projects/:id/stage: the re-enter-stage action.               *)
(***************************************************************************)
PatchStage(st) ==
  /\ st \in ProjectStage
  /\ updateProjectStage(st)
  /\ resp' = Answer("stage", 0, 200, "none")
  /\ UNCHANGED <<client, scenes, images, videos, req, batch, now, nextId, nextTask>>

(***************************************************************************)
(* POST /api/scenes/:id/confirm-description, confirm-image and             *)
(* confirm-video: a read of the scene, then the write of the flag.         *)
(***************************************************************************)
confirmSceneDescription(s) ==
  scenes' = [scenes EXCEPT ![s].description_confirmed = TRUE]

confirmSceneImage(s) ==
  scenes' = [scenes EXCEPT ![s].image_confirmed = TRUE]

confirmSceneVideo(s) ==
  scenes' = [scenes EXCEPT ![s].video_confirmed = TRUE]

\* The texts a scene description can hold.
Descriptions == {"d0", "d1"}

updateSceneDescription(s, d) ==
  scenes' = [scenes EXCEPT ![s].description = d]

\* PATCH /api/scenes/:id: getSceneById, 404 when the scene is not there.
PatchStart(r, s, d) ==
  /\ Idle(r)
  /\ s \in SceneIds /\ d \in Descriptions
  /\ IF ~Live(s) THEN Reject(r, "patch", s, 404)
     ELSE /\ req' = [req EXCEPT ![r] = [IdleReq EXCEPT !.op = "patch", !.pc = "update",
                                                       !.scene = s, !.body = d]]
          /\ resp' = NoAnswer
  /\ UNCHANGED <<client, stage, scenes, images, videos, batch, now, nextId, nextTask>>

\* PATCH /api/scenes/:id: updateSceneDescription with the body's description.
PatchWrite(r) ==
  /\ req[r].op = "patch" /\ req[r].pc = "update"
  /\ IF ~Live(req[r].scene)
     THEN /\ Return(r, 404)
          /\ UNCHANGED scenes
     ELSE /\ updateSceneDescription(req[r].scene, req[r].body)
          /\ Return(r, 200)
  /\ UNCHANGED <<client, stage, images, videos, batch, now, nextId, nextTask>>

ConfirmStart(r, op, s) ==
  /\ Idle(r)
  /\ op \in {"cdesc", "cimage", "cvideo"}
  /\ s \in SceneIds
  /\ IF ~Live(s) THEN Reject(r, op, s, 404)
     ELSE IF op = "cimage" /\ scenes[s].image_status # "completed"
     THEN Reject(r, op, s, 400)
     ELSE IF op = "cvideo" /\ scenes[s].video_status # "completed"
     THEN Reject(r, op, s, 400)
     ELSE /\ req' = [req EXCEPT ![r] = [IdleReq EXCEPT !.op = op, !.pc = "confirm",
                                                       !.scene = s]]
          /\ resp' = NoAnswer
  /\ UNCHANGED <<client, stage, scenes, images, videos, batch, now, nextId, nextTask>>

ConfirmWrite(r) ==
  /\ req[r].pc = "confirm"
  /\ IF ~Live(req[r].scene)
     THEN /\ Return(r, 404)
          /\ UNCHANGED scenes
     ELSE /\ CASE req[r].op = "cdesc" -> confirmSceneDescription(req[r].scene)
               [] req[r].op = "cimage" -> confirmSceneImage(req[r].scene)
               [] req[r].op = "cvideo" -> confirmSceneVideo(req[r].scene)
          /\ Return(r, 200)
  /\ UNCHANGED <<client, stage, images, videos, batch, now, nextId, nextTask>>

(***************************************************************************)
(* POST /api/scenes/confirm-all-videos: the scenes are read and checked,   *)
(* every video is confirmed, the stage becomes completed.                  *)
(***************************************************************************)
\* A check that asks for a scene only.
AllVideosCompletedOff == LiveScenes # {}

\* getScenesByProjectId and the two checks of the handler.
AllVideosCompleted ==
  /\ LiveScenes # {}
  /\ \A s \in LiveScenes : scenes[s].video_status = "completed"

\* confirmAllVideos: every row of the project with video_confirmed = false.
confirmAllVideos ==
  scenes' = [s \in SceneIds |->
               IF scenes[s].live /\ ~scenes[s].video_confirmed
               THEN [scenes[s] EXCEPT !.video_confirmed = TRUE]
               ELSE scenes[s]]

ConfirmAllVideosStart(r) ==
  /\ Idle(r)
  /\ IF ~AllVideosCompleted THEN Reject(r, "callvideos", 0, 400)
     ELSE /\ req' = [req EXCEPT ![r] = [IdleReq EXCEPT !.op = "callvideos",
                                                       !.pc = "confirm"]]
          /\ resp' = NoAnswer
  /\ UNCHANGED <<client, stage, scenes, images, videos, batch, now, nextId, nextTask>>

ConfirmAllVideosWrite(r) ==
  /\ req[r].op = "callvideos" /\ req[r].pc = "confirm"
  /\ confirmAllVideos
  /\ Goto(r, "stage")
  /\ resp' = NoAnswer
  /\ UNCHANGED <<client, stage, images, videos, batch, now, nextId, nextTask>>

\* updateProjectStage(completed) and the answer.
ConfirmAllVideosStage(r) ==
  /\ req[r].op = "callvideos" /\ req[r].pc = "stage"
  /\ updateProjectStage("completed")
  /\ Return(r, 200)
  /\ UNCHANGED <<client, scenes, images, videos, batch, now, nextId, nextTask>>

(***************************************************************************)
(* POST /api/generate/image/:sceneId.                                      *)
(***************************************************************************)
\* The route without the check of description_confirmed.
ImagePreconditionOff(s) == Live(s)

\* getSceneById and the check of description_confirmed.
ImagePrecondition(s) == scenes[s].description_confirmed

ImageStart(r, s) ==
  /\ Idle(r)
  /\ s \in SceneIds
  /\ Len(images[s]) < MaxArtifacts
  /\ IF ~Live(s) THEN Reject(r, "image", s, 404)
     ELSE IF ~ImagePrecondition(s) THEN Reject(r, "image", s, 400)
     ELSE /\ req' = [req EXCEPT ![r] = [IdleReq EXCEPT !.op = "image", !.pc = "mark",
                                                       !.scene = s]]
          /\ resp' = NoAnswer
  /\ UNCHANGED <<client, stage, scenes, images, videos, batch, now, nextId, nextTask>>

\* updateSceneImageStatus(processing), before the provider is called.
ImageMark(r) ==
  /\ req[r].op = "image" /\ req[r].pc = "mark"
  /\ IF ~Live(req[r].scene)
     THEN /\ Return(r, 404)
          /\ UNCHANGED scenes
     ELSE /\ updateSceneImageStatus(req[r].scene, "processing")
          /\ Goto(r, "called")
          /\ resp' = NoAnswer
  /\ UNCHANGED <<client, stage, images, videos, batch, now, nextId, nextTask>>

\* The provider, the download and the upload succeeded; createImage reads the
\* next version (it throws when the scene is gone).
ImageGenerated(r) ==
  /\ req[r].op = "image" /\ req[r].pc = "called"
  /\ IF ~Live(req[r].scene)
     THEN Throw(r, "notfound")
     ELSE req' = [req EXCEPT ![r].pc = "insert",
                             ![r].ver = getNextVersion(ImageVersions(req[r].scene))]
  /\ resp' = NoAnswer
  /\ UNCHANGED <<client, stage, scenes, images, videos, batch, now, nextId, nextTask>>

\* The provider, the download or the upload failed.
ImageProviderFail(r) ==
  /\ req[r].op = "image" /\ req[r].pc = "called"
  /\ Throw(r, "ai")
  /\ resp' = NoAnswer
  /\ UNCHANGED <<client, stage, scenes, images, videos, batch, now, nextId, nextTask>>

\* createImage inserts the row (the insert fails when the scene is gone).
ImageInsert(r) ==
  /\ req[r].op = "image" /\ req[r].pc = "insert"
  /\ IF ~Live(req[r].scene)
     THEN /\ Throw(r, "notfound")
          /\ UNCHANGED images
     ELSE /\ images' = [images EXCEPT ![req[r].scene] = Append(@, req[r].ver)]
          /\ Goto(r, "finish")
  /\ resp' = NoAnswer
  /\ UNCHANGED <<client, stage, scenes, videos, batch, now, nextId, nextTask>>

\* The insert of the image row failed.
ImageInsertFail(r) ==
  /\ req[r].op = "image" /\ req[r].pc = "insert"
  /\ Throw(r, "db")
  /\ resp' = NoAnswer
  /\ UNCHANGED <<client, stage, scenes, images, videos, batch, now, nextId, nextTask>>

\* updateSceneImageStatus(completed) and the 201 answer.
ImageComplete(r) ==
  /\ req[r].op = "image" /\ req[r].pc = "finish"
  /\ IF ~Live(req[r].scene)
     THEN /\ Return(r, 404)
          /\ UNCHANGED scenes
     ELSE /\ updateSceneImageStatus(req[r].scene, "completed")
          /\ Return(r, 201)
  /\ UNCHANGED <<client, stage, images, videos, batch, now, nextId, nextTask>>

\* The catch block: updateSceneImageStatus(failed), then the error is rethrown.
ImageFail(r) ==
  /\ req[r].op = "image" /\ req[r].pc = "fail"
  /\ IF ~Live(req[r].scene)
     THEN /\ Return(r, 404)
          /\ UNCHANGED scenes
     ELSE /\ updateSceneImageStatus(req[r].scene, "failed")
          /\ Return(r, ErrorStatus(req[r].err))
  /\ UNCHANGED <<client, stage, images, videos, batch, now, nextId, nextTask>>


(***************************************************************************)
(* POST /api/generate/images: the batch orchestrator of the image track.   *)
(***************************************************************************)
\* The ids of S in ascending order (order_index ascending).
RECURSIVE Ascending(_)
Ascending(S) ==
  IF S = {} THEN <<>>
  ELSE LET m == CHOOSE x \in S : \A y \in S : x <= y
       IN <<m>> \o Ascending(S \ {m})

\* getScenesPendingImage: description_confirmed = true and image_status = pending.
getScenesPendingImage ==
  Ascending({s \in LiveScenes : /\ scenes[s].description_confirmed
                                /\ scenes[s].image_status = "pending"})

\* The scene the batch is working on.
BatchScene == batch.queue[Len(batch.results) + 1]

successCount == Len(SelectSeq(batch.results, LAMBDA b : b))

failedCount == Len(SelectSeq(batch.results, LAMBDA b : ~b))

\* A sweep that ends at its first outcome.
BatchRecordOff(ok) ==
  batch' = [batch EXCEPT !.results = Append(@, ok),
                         !.ver = 0, !.task = 0,
                         !.pc = "tally"]

\* One scene of the sweep is done with outcome ok; on to the next or to the tally.
BatchRecord(ok) ==
  batch' = [batch EXCEPT !.results = Append(@, ok),
                         !.ver = 0, !.task = 0,
                         !.pc = IF Len(batch.results) + 1 = Len(batch.queue)
                               THEN "tally" ELSE "mark"]

\* An error escaped the per-scene helper: the route answers and the sweep ends.
BatchAbort(code) ==
  /\ batch' = IdleBatch
  /\ resp' = Answer(batch.track, 0, code, "none")

BatchImagesStart ==
  /\ batch.pc = "idle"
  /\ \A s \in SceneIds : Len(images[s]) < MaxArtifacts
  /\ IF getScenesPendingImage = <<>>
     THEN /\ resp' = Answer("images", 0, 200, "none")
          /\ UNCHANGED batch
     ELSE /\ batch' = [IdleBatch EXCEPT !.pc = "mark", !.track = "images",
                                        !.queue = getScenesPendingImage]
          /\ resp' = NoAnswer
  /\ UNCHANGED <<client, stage, scenes, images, videos, req, now, nextId, nextTask>>

\* generateImageForScene: updateSceneImageStatus(processing).
BatchImageMark ==
  /\ batch.track = "images" /\ batch.pc = "mark"
  /\ IF ~Live(BatchScene)
     THEN /\ BatchAbort(404)
          /\ UNCHANGED scenes
     ELSE /\ updateSceneImageStatus(BatchScene, "processing")
          /\ batch' = [batch EXCEPT !.pc = "called"]
          /\ resp' = NoAnswer
  /\ UNCHANGED <<client, stage, images, videos, req, now, nextId, nextTask>>

BatchImageGenerated ==
  /\ batch.track = "images" /\ batch.pc = "called"
  /\ IF ~Live(BatchScene)
     THEN batch' = [batch EXCEPT !.pc = "fail"]
     ELSE batch' = [batch EXCEPT !.pc = "insert",
                                 !.ver = getNextVersion(ImageVersions(BatchScene))]
  /\ resp' = NoAnswer
  /\ UNCHANGED <<client, stage, scenes, images, videos, req, now, nextId, nextTask>>

BatchImageProviderFail ==
  /\ batch.track = "images" /\ batch.pc = "called"
  /\ batch' = [batch EXCEPT !.pc = "fail"]
  /\ resp' = NoAnswer
  /\ UNCHANGED <<client, stage, scenes, images, videos, req, now, nextId, nextTask>>

BatchImageInsert ==
  /\ batch.track = "images" /\ batch.pc = "insert"
  /\ IF ~Live(BatchScene)
     THEN /\ batch' = [batch EXCEPT !.pc = "fail"]
          /\ UNCHANGED images
     ELSE /\ images' = [images EXCEPT ![BatchScene] = Append(@, batch.ver)]
          /\ batch' = [batch EXCEPT !.pc = "finish"]
  /\ resp' = NoAnswer
  /\ UNCHANGED <<client, stage, scenes, videos, req, now, nextId, nextTask>>

BatchImageInsertFail ==
  /\ batch.track = "images" /\ batch.pc = "insert"
  /\ batch' = [batch EXCEPT !.pc = "fail"]
  /\ resp' = NoAnswer
  /\ UNCHANGED <<client, stage, scenes, images, videos, req, now, nextId, nextTask>>

\* updateSceneImageStatus(completed); the helper returns success.
BatchImageComplete ==
  /\ batch.track = "images" /\ batch.pc = "finish"
  /\ IF ~Live(BatchScene)
     THEN /\ BatchAbort(404)
          /\ UNCHANGED scenes
     ELSE /\ updateSceneImageStatus(BatchScene, "completed")
          /\ BatchRecord(TRUE)
          /\ resp' = NoAnswer
  /\ UNCHANGED <<client, stage, images, videos, req, now, nextId, nextTask>>

\* The catch block: updateSceneImageStatus(failed); the helper returns failure.
BatchImageFail ==
  /\ batch.track = "images" /\ batch.pc = "fail"
  /\ IF ~Live(BatchScene)
     THEN /\ BatchAbort(404)
          /\ UNCHANGED scenes
     ELSE /\ updateSceneImageStatus(BatchScene, "failed")
          /\ BatchRecord(FALSE)
          /\ resp' = NoAnswer
  /\ UNCHANGED <<client, stage, images, videos, req, now, nextId, nextTask>>

\* The stage of a track.
TrackStage(track) == IF track = "images" THEN "images" ELSE "videos"

\* A sweep that writes the stage whatever its results.
AdvanceAlways == successCount >= 0

\* After the sweep: the stage is written when at least one scene succeeded.
AdvanceOnSuccess == successCount > 0

BatchTally ==
  /\ batch.pc = "tally"
  /\ IF AdvanceOnSuccess
     THEN updateProjectStage(TrackStage(batch.track))
     ELSE UNCHANGED stage
  /\ batch' = IdleBatch
  /\ resp' = Answer(batch.track, 0, 201, "none")
  /\ UNCHANGED <<client, scenes, images, videos, req, now, nextId, nextTask>>


(***************************************************************************)
(* deleteImagesBySceneId of the media data-access layer.                   *)
(***************************************************************************)
DeleteImages(s) ==
  /\ Live(s)
  /\ images[s] # <<>>
  /\ images' = [images EXCEPT ![s] = <<>>]
  /\ resp' = NoAnswer
  /\ UNCHANGED <<client, stage, scenes, videos, req, batch, now, nextId, nextTask>>

(***************************************************************************)
(* POST /api/generate/video/:sceneId.                                      *)
(***************************************************************************)
\* A row that does not keep the job handle.
PlaceholderOff(ver, task) ==
  [version |-> ver, task_id |-> 0, url |-> "", storage_path |-> "",
   created_at |-> now]

\* The placeholder row createVideo inserts at submission.
Placeholder(ver, task) ==
  [version |-> ver, task_id |-> task, url |-> "", storage_path |-> "",
   created_at |-> now]

\* The route checking description_confirmed in place of image_confirmed.
VideoPreconditionOff(s) == scenes[s].description_confirmed

\* getSceneById and the check of image_confirmed.
VideoPrecondition(s) == scenes[s].image_confirmed

VideoStart(r, s) ==
  /\ Idle(r)
  /\ s \in SceneIds
  /\ Len(videos[s]) < MaxArtifacts
  /\ nextTask <= MaxTasks
  /\ IF ~Live(s) THEN Reject(r, "video", s, 404)
     ELSE IF ~VideoPrecondition(s) THEN Reject(r, "video", s, 400)
     ELSE /\ req' = [req EXCEPT ![r] = [IdleReq EXCEPT !.op = "video", !.pc = "image",
                                                       !.scene = s]]
          /\ resp' = NoAnswer
  /\ UNCHANGED <<client, stage, scenes, images, videos, batch, now, nextId, nextTask>>

\* getLatestImage: 400 when the scene has no image row.
VideoImage(r) ==
  /\ req[r].op = "video" /\ req[r].pc = "image"
  /\ IF ~Live(req[r].scene) THEN Return(r, 404)
     ELSE IF getLatestImage(req[r].scene) = 0 THEN Return(r, 400)
     ELSE /\ Goto(r, "mark")
          /\ resp' = NoAnswer
  /\ UNCHANGED <<client, stage, scenes, images, videos, batch, now, nextId, nextTask>>

\* updateSceneVideoStatus(processing), before the provider is called.
VideoMark(r) ==
  /\ req[r].op = "video" /\ req[r].pc = "mark"
  /\ IF ~Live(req[r].scene)
     THEN /\ Return(r, 404)
          /\ UNCHANGED scenes
     ELSE /\ updateSceneVideoStatus(req[r].scene, "processing")
          /\ Goto(r, "called")
          /\ resp' = NoAnswer
  /\ UNCHANGED <<client, stage, images, videos, batch, now, nextId, nextTask>>

\* The provider answered with a job handle; createVideo reads the next version.
VideoSubmitted(r) ==
  /\ req[r].op = "video" /\ req[r].pc = "called"
  /\ IF ~Live(req[r].scene)
     THEN Throw(r, "notfound")
     ELSE req' = [req EXCEPT ![r].pc = "insert", ![r].task = nextTask,
                             ![r].ver = getNextVersion(VideoVersions(req[r].scene))]
  /\ nextTask' = nextTask + 1
  /\ resp' = NoAnswer
  /\ UNCHANGED <<client, stage, scenes, images, videos, batch, now, nextId>>

VideoProviderFail(r) ==
  /\ req[r].op = "video" /\ req[r].pc = "called"
  /\ Throw(r, "ai")
  /\ resp' = NoAnswer
  /\ UNCHANGED <<client, stage, scenes, images, videos, batch, now, nextId, nextTask>>

\* createVideo inserts the placeholder; the request answers 201, status processing.
VideoInsert(r) ==
  /\ req[r].op = "video" /\ req[r].pc = "insert"
  /\ IF ~Live(req[r].scene)
     THEN /\ Throw(r, "notfound")
          /\ resp' = NoAnswer
          /\ UNCHANGED videos
     ELSE /\ videos' = [videos EXCEPT ![req[r].scene] =
                          Append(@, Placeholder(req[r].ver, req[r].task))]
          /\ Return(r, 201)
  /\ UNCHANGED <<client, stage, scenes, images, batch, now, nextId, nextTask>>

VideoInsertFail(r) ==
  /\ req[r].op = "video" /\ req[r].pc = "insert"
  /\ Throw(r, "db")
  /\ resp' = NoAnswer
  /\ UNCHANGED <<client, stage, scenes, images, videos, batch, now, nextId, nextTask>>

\* The catch block: updateSceneVideoStatus(failed), then the error is rethrown.
VideoFail(r) ==
  /\ req[r].op = "video" /\ req[r].pc = "fail"
  /\ IF ~Live(req[r].scene)
     THEN /\ Return(r, 404)
          /\ UNCHANGED scenes
     ELSE /\ updateSceneVideoStatus(req[r].scene, "failed")
          /\ Return(r, ErrorStatus(req[r].err))
  /\ UNCHANGED <<client, stage, images, videos, batch, now, nextId, nextTask>>

(***************************************************************************)
(* POST /api/generate/videos: the batch orchestrator of the video track.   *)
(***************************************************************************)
\* getScenesPendingVideo: image_confirmed = true and video_status = pending.
getScenesPendingVideo ==
  Ascending({s \in LiveScenes : /\ scenes[s].image_confirmed
                                /\ scenes[s].video_status = "pending"})

BatchVideosStart ==
  /\ batch.pc = "idle"
  /\ \A s \in SceneIds : Len(videos[s]) < MaxArtifacts
  /\ nextTask <= MaxTasks
  /\ IF getScenesPendingVideo = <<>>
     THEN /\ resp' = Answer("videos", 0, 200, "none")
          /\ UNCHANGED batch
     ELSE /\ batch' = [IdleBatch EXCEPT !.pc = "mark", !.track = "videos",
                                        !.queue = getScenesPendingVideo]
          /\ resp' = NoAnswer
  /\ UNCHANGED <<client, stage, scenes, images, videos, req, now, nextId, nextTask>>

\* createVideoTaskForScene: updateSceneVideoStatus(processing) comes first.
BatchVideoMark ==
  /\ batch.track = "videos" /\ batch.pc = "mark"
  /\ IF ~Live(BatchScene)
     THEN /\ BatchAbort(404)
          /\ UNCHANGED scenes
     ELSE /\ updateSceneVideoStatus(BatchScene, "processing")
          /\ batch' = [batch EXCEPT !.pc = "image"]
          /\ resp' = NoAnswer
  /\ UNCHANGED <<client, stage, images, videos, req, now, nextId, nextTask>>

\* getLatestImage, after the status write.
BatchVideoImage ==
  /\ batch.track = "videos" /\ batch.pc = "image"
  /\ batch' = [batch EXCEPT !.pc = IF ~Live(BatchScene) THEN "fail"
                                   ELSE IF getLatestImage(BatchScene) = 0 THEN "noimage"
                                   ELSE "called"]
  /\ resp' = NoAnswer
  /\ UNCHANGED <<client, stage, scenes, images, videos, req, now, nextId, nextTask>>

\* No image row: updateSceneVideoStatus(failed), the helper returns failure.
BatchVideoNoImage ==
  /\ batch.track = "videos" /\ batch.pc = "noimage"
  /\ IF ~Live(BatchScene)
     THEN /\ BatchAbort(404)
          /\ UNCHANGED scenes
     ELSE /\ updateSceneVideoStatus(BatchScene, "failed")
          /\ BatchRecord(FALSE)
          /\ resp' = NoAnswer
  /\ UNCHANGED <<client, stage, images, videos, req, now, nextId, nextTask>>

BatchVideoSubmitted ==
  /\ batch.track = "videos" /\ batch.pc = "called"
  /\ IF ~Live(BatchScene)
     THEN batch' = [batch EXCEPT !.pc = "fail"]
     ELSE batch' = [batch EXCEPT !.pc = "insert", !.task = nextTask,
                                 !.ver = getNextVersion(VideoVersions(BatchScene))]
  /\ nextTask' = nextTask + 1
  /\ resp' = NoAnswer
  /\ UNCHANGED <<client, stage, scenes, images, videos, req, now, nextId>>

BatchVideoProviderFail ==
  /\ batch.track = "videos" /\ batch.pc = "called"
  /\ batch' = [batch EXCEPT !.pc = "fail"]
  /\ resp' = NoAnswer
  /\ UNCHANGED <<client, stage, scenes, images, videos, req, now, nextId, nextTask>>

\* createVideo inserts the placeholder; the helper returns success.
BatchVideoInsert ==
  /\ batch.track = "videos" /\ batch.pc = "insert"
  /\ IF ~Live(BatchScene)
     THEN /\ batch' = [batch EXCEPT !.pc = "fail"]
          /\ UNCHANGED videos
     ELSE /\ videos' = [videos EXCEPT ![BatchScene] =
                          Append(@, Placeholder(batch.ver, batch.task))]
          /\ BatchRecord(TRUE)
  /\ resp' = NoAnswer
  /\ UNCHANGED <<client, stage, scenes, images, req, now, nextId, nextTask>>

BatchVideoInsertFail ==
  /\ batch.track = "videos" /\ batch.pc = "insert"
  /\ batch' = [batch EXCEPT !.pc = "fail"]
  /\ resp' = NoAnswer
  /\ UNCHANGED <<client, stage, scenes, images, videos, req, now, nextId, nextTask>>

\* The catch block: updateSceneVideoStatus(failed); the helper returns failure.
BatchVideoFail ==
  /\ batch.track = "videos" /\ batch.pc = "fail"
  /\ IF ~Live(BatchScene)
     THEN /\ BatchAbort(404)
          /\ UNCHANGED scenes
     ELSE /\ updateSceneVideoStatus(BatchScene, "failed")
          /\ BatchRecord(FALSE)
          /\ resp' = NoAnswer
  /\ UNCHANGED <<client, stage, images, videos, req, now, nextId, nextTask>>

(***************************************************************************)
(* GET /api/generate/video/status/:taskId: reconciliation of a job handle. *)
(***************************************************************************)
\* The task_status values of the vendor; OTHER stands for any value the switch
\* of getVideoTaskStatus does not name.
VendorStatus == {"PENDING", "RUNNING", "SUCCEEDED", "FAILED", "OTHER"}

\* getVideoTaskStatus: the status the vendor's task_status is converted to.
getVideoTaskStatus(task_status) ==
  CASE task_status \in {"PENDING", "RUNNING"} -> "processing"
    [] task_status = "SUCCEEDED" -> "completed"
    [] task_status = "FAILED" -> "failed"
    [] OTHER -> "pending"

\* The branch of the handler that stores the video: status completed and a
\* video_url in the vendor's answer.
StoresVideo(status, hasUrl) == status = "completed" /\ hasUrl

\* The clock: time passes between two requests.
Tick ==
  /\ now < MaxTicks * TickMs
  /\ now' = now + TickMs
  /\ resp' = NoAnswer
  /\ UNCHANGED <<client, stage, scenes, images, videos, req, batch, nextId, nextTask>>

\* The handles the provider has given out so far.
TaskIds == 1..MaxTasks

\* getVideoByTaskId: 404 when no video row stores the handle.
PollStart(r, t) ==
  /\ Idle(r)
  /\ t \in TaskIds
  /\ IF getVideoByTaskId(t) = 0
     THEN Reject(r, "poll", 0, 404)
     ELSE /\ req' = [req EXCEPT ![r] = [IdleReq EXCEPT !.op = "poll", !.pc = "query",
                                                       !.task = t,
                                                       !.scene = getVideoByTaskId(t)]]
          /\ resp' = NoAnswer
  /\ UNCHANGED <<client, stage, scenes, images, videos, batch, now, nextId, nextTask>>

\* The vendor is asked.  Completed with a video_url: the video is downloaded
\* and getSceneById is read; failed: updateSceneVideoStatus(failed); anything
\* else is answered as it is, with no write.
PollQuery(r, task_status, hasUrl) ==
  /\ req[r].op = "poll" /\ req[r].pc = "query"
  /\ task_status \in VendorStatus
  /\ hasUrl \in BOOLEAN
  /\ LET status == getVideoTaskStatus(task_status)
         s == req[r].scene
     IN IF StoresVideo(status, hasUrl)
        THEN /\ IF ~Live(s) THEN Return(r, 404)
                ELSE Goto(r, "update") /\ resp' = NoAnswer
             /\ UNCHANGED scenes
        ELSE IF status = "failed"
        THEN /\ IF ~Live(s)
                THEN Return(r, 404) /\ UNCHANGED scenes
                ELSE /\ updateSceneVideoStatus(s, "failed")
                     /\ req' = [req EXCEPT ![r] = IdleReq]
                     /\ resp' = Answer("poll", s, 200, "failed")
        ELSE /\ req' = [req EXCEPT ![r] = IdleReq]
             /\ resp' = Answer("poll", s, 200, status)
             /\ UNCHANGED scenes
  /\ UNCHANGED <<client, stage, images, videos, batch, now, nextId, nextTask>>

\* The vendor query, the download or the upload failed: 500, nothing written.
PollError(r) ==
  /\ req[r].op = "poll" /\ req[r].pc \in {"query", "update"}
  /\ Return(r, ErrorStatus("ai"))
  /\ UNCHANGED <<client, stage, scenes, images, videos, batch, now, nextId, nextTask>>

\* The name of the file a status request uploads: video-${Date.now()}.mp4,
\* one name for each tick of the clock.
FileName(t) ==
  CASE t \div TickMs = 0 -> "video-0.mp4"
    [] t \div TickMs = 1 -> "video-1.mp4"
    [] t \div TickMs = 2 -> "video-2.mp4"
    [] OTHER -> "video-3.mp4"

\* updateVideo: the uploaded file's url and storage path go into the row.
updateVideo(s, t) ==
  videos' = [videos EXCEPT ![s][VideoIndexOfTask(s, t)].url = FileName(now),
                           ![s][VideoIndexOfTask(s, t)].storage_path = FileName(now)]

PollUpdate(r) ==
  /\ req[r].op = "poll" /\ req[r].pc = "update"
  /\ IF VideoIndexOfTask(req[r].scene, req[r].task) = 0
     THEN /\ Return(r, 404)
          /\ UNCHANGED videos
     ELSE /\ updateVideo(req[r].scene, req[r].task)
          /\ Goto(r, "finish")
          /\ resp' = NoAnswer
  /\ UNCHANGED <<client, stage, scenes, images, batch, now, nextId, nextTask>>

\* updateSceneVideoStatus(completed) and the answer, status completed.
PollComplete(r) ==
  /\ req[r].op = "poll" /\ req[r].pc = "finish"
  /\ IF ~Live(req[r].scene)
     THEN /\ Return(r, 404)
          /\ UNCHANGED scenes
     ELSE /\ updateSceneVideoStatus(req[r].scene, "completed")
          /\ req' = [req EXCEPT ![r] = IdleReq]
          /\ resp' = Answer("poll", req[r].scene, 200, "completed")
  /\ UNCHANGED <<client, stage, images, videos, batch, now, nextId, nextTask>>

\* The state right after POST /api/generate/scenes has created the scenes.
InitScenes ==
  /\ stage = "scenes"
  /\ scenes = [s \in SceneIds |-> NewScene]
  /\ images = [s \in SceneIds |-> <<>>]
  /\ videos = [s \in SceneIds |-> <<>>]
  /\ req = [r \in Slots |-> IdleReq]
  /\ batch = IdleBatch
  /\ resp = NoAnswer
  /\ now = 0
  /\ client = Mount(scenes, videos)
  /\ nextId = MaxSceneId + 1
  /\ nextTask = 1

(***************************************************************************)
(* The ledger writes of the data-access layer as a principal calls them.   *)
(* Every one is an UPDATE through the session's client, filtered by the    *)
(* row-level security policies, followed by a comparison of the returned   *)
(* row's project.user_id with the userId argument.  The routes pass the id *)
(* of the session's user as userId, so both are the same principal u.      *)
(***************************************************************************)
Users == {"owner", "other"}

\* projects.user_id of the project.
ProjectOwner == "owner"

\* An UPDATE with no row-level security: every row is visible to everyone.
RlsPolicyOff(u) == u \in Users

\* The UPDATE policies of scenes and videos: the project belongs to auth.uid().
RlsPolicy(u) == u = ProjectOwner

\* The check after the UPDATE: project.user_id !== userId throws.
OwnershipCheck(u) == u = ProjectOwner

DalWrites ==
  {"updateSceneImageStatus", "updateSceneVideoStatus", "confirmSceneImage",
   "confirmSceneVideo", "confirmSceneDescription", "updateSceneDescription",
   "updateVideo"}

\* The outcome of a data-access call of principal u: 200 when it returned,
\* 404 when it threw 'not found or access denied'.
DalAnswer(u, fn, s, code) ==
  [op |-> fn, scene |-> s, code |-> code, status |-> "none", user |-> u]

\* A write of the scenes table by principal u.  No row passes the policy:
\* PGRST116, nothing written.  A row passes: it is written, then checked.
DalSceneWrite(u, fn, s, status, d) ==
  /\ fn \in DalWrites \ {"updateVideo"}
  /\ s \in SceneIds
  /\ IF ~Live(s) \/ ~RlsPolicy(u)
     THEN /\ UNCHANGED scenes
          /\ resp' = DalAnswer(u, fn, s, 404)
     ELSE /\ CASE fn = "updateSceneImageStatus" -> updateSceneImageStatus(s, status)
               [] fn = "updateSceneVideoStatus" -> updateSceneVideoStatus(s, status)
               [] fn = "confirmSceneImage" -> confirmSceneImage(s)
               [] fn = "confirmSceneVideo" -> confirmSceneVideo(s)
               [] fn = "confirmSceneDescription" -> confirmSceneDescription(s)
               [] fn = "updateSceneDescription" -> updateSceneDescription(s, d)
          /\ resp' = DalAnswer(u, fn, s, IF OwnershipCheck(u) THEN 200 ELSE 404)
  /\ UNCHANGED <<client, stage, images, videos, req, batch, now, nextId, nextTask>>

\* updateVideo by principal u on the row of handle t.
DalVideoWrite(u, t) ==
  /\ t \in TaskIds
  /\ LET s == getVideoByTaskId(t)
     IN IF s = 0 \/ ~RlsPolicy(u)
        THEN /\ UNCHANGED videos
             /\ resp' = DalAnswer(u, "updateVideo", s, 404)
        ELSE /\ updateVideo(s, t)
             /\ resp' = DalAnswer(u, "updateVideo", s,
                                  IF OwnershipCheck(u) THEN 200 ELSE 404)
  /\ UNCHANGED <<client, stage, scenes, images, req, batch, now, nextId, nextTask>>

(***************************************************************************)
(* The provider adapters: retry around one request, and the conversion of  *)
(* the vendor's task status.                                               *)
(***************************************************************************)
MAX_RETRIES == 3

\* The two video adapters of the repository.
Adapters == {"aliyun-video", "volc-video"}

\* The adapter functions that wrap one request in retry.
AdapterFns == {"createVideoTask", "getVideoTaskStatus"}

\* What a request can fail with: the abort of the request timeout, a 5xx
\* answer, a 4xx answer (a bad key, a bad request).  The request function
\* throws an AIGenerationError for each of them.
Failures == {"timeout", "http5xx", "http4xx"}

\* The failures that another attempt can cure.
Transient(failure) == failure \in {"timeout", "http5xx"}

\* The status field of the volc-video answer; OTHER stands for any value the
\* declared type of the answer does not name.
VolcStatus == MediaStatus \cup {"OTHER"}

\* getVideoTaskStatus of volc-video: the status of the answer is returned as
\* it came.
volcGetVideoTaskStatus(status) == status

\* The status an adapter returns for the vendor's answer.
AdapterStatus(adapter, task_status) ==
  IF adapter = "aliyun-video" THEN getVideoTaskStatus(task_status)
  ELSE volcGetVideoTaskStatus(task_status)

\* What the adapter hands to its caller.
AdapterResult(fn, adapter, status) ==
  [op |-> fn, scene |-> 0, code |-> 0, status |-> status, adapter |-> adapter]

\* A handler calls an adapter function: retry starts its loop at i = 0.
AdapterCall(r, fn, adapter) ==
  /\ Idle(r)
  /\ fn \in AdapterFns /\ adapter \in Adapters
  /\ req' = [req EXCEPT ![r] = [IdleReq EXCEPT !.op = fn, !.pc = "try",
                                               !.adapter = adapter]]
  /\ resp' = NoAnswer
  /\ UNCHANGED <<client, stage, scenes, images, videos, batch, now, nextId, nextTask>>

\* retry: fn() is invoked and succeeds; its result is returned at once.
RetryOk(r, task_status) ==
  /\ req[r].op \in AdapterFns /\ req[r].pc = "try"
  /\ task_status \in (IF req[r].adapter = "aliyun-video" THEN VendorStatus
                      ELSE VolcStatus)
  /\ req' = [req EXCEPT ![r] = IdleReq]
  /\ resp' = AdapterResult(req[r].op, req[r].adapter,
                           IF req[r].op = "getVideoTaskStatus"
                           THEN AdapterStatus(req[r].adapter, task_status)
                           ELSE "submitted")
  /\ UNCHANGED <<client, stage, scenes, images, videos, batch, now, nextId, nextTask>>

\* retry: fn() is invoked and throws.  Before the last attempt the loop goes
\* to sleep(delay); after it the last error is thrown, and the adapter hands
\* it on as an AIGenerationError.
RetryFail(r, failure) ==
  /\ req[r].op \in AdapterFns /\ req[r].pc = "try"
  /\ failure \in Failures
  /\ IF req[r].i < MAX_RETRIES - 1
     THEN /\ req' = [req EXCEPT ![r].pc = "sleep", ![r].err = failure,
                                ![r].calls = @ + 1]
          /\ resp' = NoAnswer
     ELSE /\ req' = [req EXCEPT ![r] = IdleReq]
          /\ resp' = AdapterResult(req[r].op, req[r].adapter, "AIGenerationError")
  /\ UNCHANGED <<client, stage, scenes, images, videos, batch, now, nextId, nextTask>>

\* retry: sleep(delay) is over, the loop goes to its next attempt.
RetrySleep(r) ==
  /\ req[r].op \in AdapterFns /\ req[r].pc = "sleep"
  /\ req' = [req EXCEPT ![r].pc = "try", ![r].i = @ + 1, ![r].sleeps = @ + 1]
  /\ resp' = NoAnswer
  /\ UNCHANGED <<client, stage, scenes, images, videos, batch, now, nextId, nextTask>>

(***************************************************************************)
(* Specifications.                                                         *)
(***************************************************************************)
\* No handler is running.
Quiet == batch.pc = "idle" /\ \A r \in Slots : Idle(r)

\* A handler is entered.
ConfirmEnter ==
  \E r \in Slots, op \in {"cdesc", "cimage"}, s \in SceneIds : ConfirmStart(r, op, s)

ImageEnter == \E r \in Slots, s \in SceneIds : ImageStart(r, s)

VideoEnter == \E r \in Slots, s \in SceneIds : VideoStart(r, s)

PollEnter == \E r \in Slots, t \in TaskIds : PollStart(r, t)

ConfirmVideoEnter == \E r \in Slots, s \in SceneIds : ConfirmStart(r, "cvideo", s)

\* A handler that was entered takes its next step.
ConfirmStep == \E r \in Slots : ConfirmWrite(r)

ImageStep ==
  \/ \E r \in Slots : ImageMark(r)
  \/ \E r \in Slots : ImageGenerated(r)
  \/ \E r \in Slots : ImageProviderFail(r)
  \/ \E r \in Slots : ImageInsert(r)
  \/ \E r \in Slots : ImageInsertFail(r)
  \/ \E r \in Slots : ImageComplete(r)
  \/ \E r \in Slots : ImageFail(r)

BatchImageStep ==
  \/ BatchImageMark
  \/ BatchImageGenerated
  \/ BatchImageProviderFail
  \/ BatchImageInsert
  \/ BatchImageInsertFail
  \/ BatchImageComplete
  \/ BatchImageFail

VideoStep ==
  \/ \E r \in Slots : VideoImage(r)
  \/ \E r \in Slots : VideoMark(r)
  \/ \E r \in Slots : VideoSubmitted(r)
  \/ \E r \in Slots : VideoProviderFail(r)
  \/ \E r \in Slots : VideoInsert(r)
  \/ \E r \in Slots : VideoInsertFail(r)
  \/ \E r \in Slots : VideoFail(r)

BatchVideoStep ==
  \/ BatchVideoMark
  \/ BatchVideoImage
  \/ BatchVideoNoImage
  \/ BatchVideoSubmitted
  \/ BatchVideoProviderFail
  \/ BatchVideoInsert
  \/ BatchVideoInsertFail
  \/ BatchVideoFail

PollStep ==
  \/ \E r \in Slots, task_status \in VendorStatus, hasUrl \in BOOLEAN :
       PollQuery(r, task_status, hasUrl)
  \/ \E r \in Slots : PollError(r)
  \/ \E r \in Slots : PollUpdate(r)
  \/ \E r \in Slots : PollComplete(r)

SceneGenStep ==
  \/ \E r \in Slots : SceneGenProviderFail(r)
  \/ \E r \in Slots, n \in 1..MaxSceneId : SceneGenDelete(r, n)
  \/ \E r \in Slots : SceneGenCreate(r)
  \/ \E r \in Slots : SceneGenCreateFail(r)
  \/ \E r \in Slots : SceneGenStage(r)

\* The pipeline of both tracks, one request at a time.
Next ==
  \/ Quiet /\ ConfirmEnter
  \/ ConfirmStep
  \/ Quiet /\ ImageEnter
  \/ ImageStep
  \/ Quiet /\ BatchImagesStart
  \/ BatchImageStep
  \/ Quiet /\ VideoEnter
  \/ VideoStep
  \/ Quiet /\ BatchVideosStart
  \/ BatchVideoStep
  \/ BatchTally
  \/ Quiet /\ \E s \in SceneIds : DeleteImages(s)

Spec == InitScenes /\ [][Next]_vars

\* One scene only: every request works on the same unit.
InitOneScene ==
  /\ stage = "scenes"
  /\ scenes = [s \in SceneIds |-> IF s = 1 THEN NewScene ELSE NoScene]
  /\ images = [s \in SceneIds |-> << >>]
  /\ videos = [s \in SceneIds |-> << >>]
  /\ req = [r \in Slots |-> IdleReq]
  /\ batch = IdleBatch
  /\ resp = NoAnswer
  /\ now = 0
  /\ client = Mount(scenes, videos)
  /\ nextId = MaxSceneId + 1
  /\ nextTask = 1

\* Single-unit requests of both tracks, interleaving at every database call.
NextRace ==
  \/ Quiet /\ ConfirmEnter
  \/ ConfirmStep
  \/ ImageEnter
  \/ ImageStep
  \/ VideoEnter
  \/ VideoStep

SpecRace == InitOneScene /\ [][NextRace]_vars

\* The state in which every scene has a confirmed image.
InitImagesConfirmed ==
  /\ stage = "images"
  /\ scenes = [s \in SceneIds |->
                 [NewScene EXCEPT !.description_confirmed = TRUE,
                                  !.image_status = "completed",
                                  !.image_confirmed = TRUE]]
  /\ images = [s \in SceneIds |-> <<1>>]
  /\ videos = [s \in SceneIds |-> << >>]
  /\ req = [r \in Slots |-> IdleReq]
  /\ batch = IdleBatch
  /\ resp = NoAnswer
  /\ now = 0
  /\ client = Mount(scenes, videos)
  /\ nextId = MaxSceneId + 1
  /\ nextTask = 1

\* Submission of video jobs and their reconciliation while time passes.
NextPoll ==
  \/ Quiet /\ VideoEnter
  \/ VideoStep
  \/ Quiet /\ PollEnter
  \/ PollStep
  \/ Quiet /\ ConfirmVideoEnter
  \/ ConfirmStep
  \/ Quiet /\ Tick

SpecPoll == InitImagesConfirmed /\ [][NextPoll]_vars

\* The project from its creation: scene generation, the batch sweeps and the
\* stage route, one request at a time.
NextStage ==
  \/ Quiet /\ \E r \in Slots, op \in {"scenes", "regen"} : SceneGenStart(r, op)
  \/ SceneGenStep
  \/ Quiet /\ \E st \in ProjectStage : PatchStage(st)
  \/ Quiet /\ ConfirmEnter
  \/ ConfirmStep
  \/ Quiet /\ BatchImagesStart
  \/ BatchImageStep
  \/ Quiet /\ BatchVideosStart
  \/ BatchVideoStep
  \/ BatchTally
  \/ Quiet /\ \E s \in SceneIds : DeleteImages(s)

SpecStage == Init /\ [][NextStage]_vars

\* The state after a video job has been submitted for the only scene.
InitSubmitted ==
  /\ stage = "images"
  /\ scenes = [s \in SceneIds |->
                 IF s = 1
                 THEN [NewScene EXCEPT !.description_confirmed = TRUE,
                                       !.image_status = "completed",
                                       !.image_confirmed = TRUE,
                                       !.video_status = "processing"]
                 ELSE NoScene]
  /\ images = [s \in SceneIds |-> IF s = 1 THEN <<1>> ELSE << >>]
  /\ videos = [s \in SceneIds |->
                 IF s = 1
                 THEN <<[version |-> 1, task_id |-> 1, url |-> "",
                         storage_path |-> "", created_at |-> 0]>>
                 ELSE << >>]
  /\ req = [r \in Slots |-> IdleReq]
  /\ batch = IdleBatch
  /\ resp = NoAnswer
  /\ now = 0
  /\ client = Mount(scenes, videos)
  /\ nextId = MaxSceneId + 1
  /\ nextTask = 2

\* Calls of the data-access layer by the owner and by another principal.
NextOwner ==
  \/ \E u \in Users, s \in SceneIds, status \in MediaStatus,
        fn \in {"updateSceneImageStatus", "updateSceneVideoStatus"} :
       DalSceneWrite(u, fn, s, status, "d0")
  \/ \E u \in Users, s \in SceneIds,
        fn \in {"confirmSceneImage", "confirmSceneVideo", "confirmSceneDescription"} :
       DalSceneWrite(u, fn, s, "pending", "d0")
  \/ \E u \in Users, s \in SceneIds, d \in Descriptions :
       DalSceneWrite(u, "updateSceneDescription", s, "pending", d)
  \/ \E u \in Users, t \in TaskIds : DalVideoWrite(u, t)

SpecOwner == InitSubmitted /\ [][NextOwner]_vars

\* The adapter calls of two handlers, on the state after a submission.
NextAdapter ==
  \/ \E r \in Slots, fn \in AdapterFns, adapter \in Adapters : AdapterCall(r, fn, adapter)
  \/ \E r \in Slots, task_status \in VendorStatus \cup VolcStatus : RetryOk(r, task_status)
  \/ \E r \in Slots, failure \in Failures : RetryFail(r, failure)
  \/ \E r \in Slots : RetrySleep(r)

SpecAdapter == InitSubmitted /\ [][NextAdapter]_vars

\* The page of a project whose videos are not generated yet: what the user
\* clicks, what the timers do and what the server answers.
NextClient ==
  \/ \E s \in SceneIds : ClientGenerate(s)
  \/ \E s \in SceneIds : ClientGenerateOk(s)
  \/ \E s \in SceneIds : ClientGenerateFail(s)
  \/ \E results \in SUBSET SceneIds, ok \in SUBSET SceneIds : ClientGenerateAll(results, ok)
  \/ \E t \in TimerIds : ClientTick(t)
  \/ \E s \in SceneIds, status \in MediaStatus \cup {"error"} : ClientPollAnswer(s, status)

SpecClient == InitImagesConfirmed /\ [][NextClient]_vars

\* The scenes of a project are generated, edited and confirmed; the requests
\* on a scene interleave, a generation runs alone.
NextEdit ==
  \/ Quiet /\ \E r \in Slots, op \in {"scenes", "regen"} : SceneGenStart(r, op)
  \/ SceneGenStep
  \/ \E r \in Slots, s \in SceneIds, d \in Descriptions : PatchStart(r, s, d)
  \/ \E r \in Slots : PatchWrite(r)
  \/ \E r \in Slots, s \in SceneIds : ConfirmStart(r, "cdesc", s)
  \/ ConfirmStep

SpecEdit == Init /\ [][NextEdit]_vars

\* The project at the stage of the videos: each scene row is either absent or
\* has a confirmed image and a video job that has been submitted.
InitFinish ==
  /\ stage = "videos"
  /\ scenes \in [SceneIds ->
                   {NoScene, [NewScene EXCEPT !.description_confirmed = TRUE,
                                              !.image_status = "completed",
                                              !.image_confirmed = TRUE,
                                              !.video_status = "processing"]}]
  /\ images = [s \in SceneIds |-> IF scenes[s].live THEN <<1>> ELSE << >>]
  /\ videos = [s \in SceneIds |->
                 IF scenes[s].live
                 THEN <<[version |-> 1, task_id |-> s, url |-> "",
                         storage_path |-> "", created_at |-> 0]>>
                 ELSE << >>]
  /\ req = [r \in Slots |-> IdleReq]
  /\ batch = IdleBatch
  /\ resp = NoAnswer
  /\ now = 0
  /\ client = Mount(scenes, videos)
  /\ nextId = MaxSceneId + 1
  /\ nextTask = MaxSceneId + 1

\* The jobs are reconciled and the videos are confirmed together, one request
\* at a time.
NextFinish ==
  \/ Quiet /\ PollEnter
  \/ PollStep
  \/ Quiet /\ \E r \in Slots : ConfirmAllVideosStart(r)
  \/ \E r \in Slots : ConfirmAllVideosWrite(r)
  \/ \E r \in Slots : ConfirmAllVideosStage(r)

SpecFinish == InitFinish /\ [][NextFinish]_vars

(***************************************************************************)
(* Properties.                                                             *)
(***************************************************************************)
\* C1: video generation never works on a scene whose image is not confirmed.
\* Whatever step is taken while image_confirmed = false, no video handler holds
\* the scene afterwards, the batch sweep has not selected it, an answer of
\* the single video route for it is 400 and came with the scene row and the
\* artifacts unchanged, and its video_status and video rows are as before.
C1_VideoNeedsConfirmedImage ==
  [][\A s \in LiveScenes : ~scenes[s].image_confirmed =>
       /\ \A r \in Slots : ~(req'[r].op = "video" /\ req'[r].scene = s)
       /\ batch'.track = "videos" =>
            \A i \in DOMAIN batch'.queue : batch'.queue[i] # s
       /\ (resp'.op = "video" /\ resp'.scene = s) =>
            /\ resp'.code = 400
            /\ scenes'[s] = scenes[s]
            /\ images'[s] = images[s]
       /\ scenes'[s].video_status = scenes[s].video_status
       /\ videos'[s] = videos[s]]_vars

\* The single video route has just answered 400 for a scene that has a
\* completed image which is not confirmed.
C1_Witness ==
  \E s \in LiveScenes :
    /\ resp = Answer("video", s, 400, "none")
    /\ ~scenes[s].image_confirmed
    /\ scenes[s].image_status = "completed"

\* C2: image generation never works on a scene whose description is not
\* confirmed.  Whatever step is taken while description_confirmed = false, no
\* image handler holds the scene afterwards, the batch sweep has not selected
\* it, an answer of the single image route for it is 400, and its image_status
\* and image rows are as before.
C2_ImageNeedsConfirmedDescription ==
  [][\A s \in LiveScenes : ~scenes[s].description_confirmed =>
       /\ \A r \in Slots : ~(req'[r].op = "image" /\ req'[r].scene = s)
       /\ batch'.track = "images" =>
            \A i \in DOMAIN batch'.queue : batch'.queue[i] # s
       /\ (resp'.op = "image" /\ resp'.scene = s) => resp'.code = 400
       /\ scenes'[s].image_status = scenes[s].image_status
       /\ images'[s] = images[s]]_vars

\* The single image route has just answered 400 for a scene whose description
\* is not confirmed, while another scene already has an image.
C2_Witness ==
  \E s \in LiveScenes, o \in LiveScenes :
    /\ resp = Answer("image", s, 400, "none")
    /\ ~scenes[s].description_confirmed
    /\ scenes[s].image_status = "pending"
    /\ images[o] # <<>>

\* C3: a successful single-unit generation stores an artifact whose version
\* is the previous maximum of the scene and track plus one (1 when there was
\* none), and the image route's success answer comes with image_status
\* completed.
C3_VersionIsPriorMaxPlusOne ==
  [][\A s \in SceneIds :
       /\ Len(images'[s]) = Len(images[s]) + 1 =>
            images'[s][Len(images'[s])] = MaxOf(ImageVersions(s)) + 1
       /\ Len(videos'[s]) = Len(videos[s]) + 1 =>
            videos'[s][Len(videos'[s])].version = MaxOf(VideoVersions(s)) + 1
       /\ (resp'.op = "image" /\ resp'.scene = s /\ resp'.code = 201) =>
            scenes'[s].image_status = "completed"]_vars

\* C4: a batch run writes the stage of its track exactly when at least one
\* scene of the sweep succeeded.  The answer of a batch route (200 for an empty
\* selection, 201 after the sweep) comes with the stage set to the track's
\* stage when some result is a success and with the stage unchanged when none
\* is, and no step of the sweep before the answer writes the stage.
C4_StageIffSuccess ==
  [][/\ (resp'.op \in {"images", "videos"} /\ resp'.code \in {200, 201}) =>
          IF \E i \in DOMAIN batch.results : batch.results[i]
          THEN stage' = resp'.op
          ELSE stage' = stage
     /\ batch.pc \notin {"idle", "tally"} => stage' = stage]_vars

\* The batch video route has just answered after a sweep in which every scene
\* failed, and the stage is still images.
C4_Witness ==
  /\ resp = Answer("videos", 0, 201, "none")
  /\ stage = "images"
  /\ \E s \in LiveScenes : scenes[s].video_status = "failed"

\* C5: the stage never moves to an earlier value except by the stage route.
C5_StageOnlyLoweredByPatch ==
  [][StageRank(stage') < StageRank(stage) => resp'.op = "stage"]_vars

\* C6: at most one generation per scene and track has been handed to the
\* provider without having reached a terminal status in the ledger.
C6_AtMostOneInFlight ==
  \A s \in SceneIds, track \in {"image", "video"} :
    Cardinality({r \in Slots : /\ req[r].op = track
                               /\ req[r].scene = s
                               /\ req[r].pc \in {"insert", "finish"}}) <= 1

\* C7: a reconciliation that finds no terminal vendor status more than
\* MaxWaitTime after the job was submitted sets the scene's video_status to
\* failed.
C7_CeilingFailsTheJob ==
  [][\A r \in Slots :
       (/\ req[r].op = "poll" /\ req[r].pc = "query"
        /\ resp'.op = "poll" /\ resp'.code = 200
        /\ resp'.status \in {"pending", "processing"}
        /\ scenes[req[r].scene].video_status = "processing"
        /\ now - videos[req[r].scene][VideoIndexOfTask(req[r].scene, req[r].task)].created_at
             > MaxWaitTime)
       => scenes'[req[r].scene].video_status = "failed"]_vars

\* C8: a reconciliation of a processing scene that answers with the vendor's
\* status completed ends with video_status completed and with a url and a
\* storage path in the video row of the handle.
C8_CompletedIsStored ==
  [][\A r \in Slots :
       (/\ req[r].op = "poll"
        /\ resp'.op = "poll" /\ resp'.code = 200 /\ resp'.status = "completed"
        /\ scenes[req[r].scene].video_status = "processing")
       => LET s == req[r].scene
              i == VideoIndexOfTask(s, req[r].task)
          IN /\ scenes'[s].video_status = "completed"
             /\ videos'[s][i].url # ""
             /\ videos'[s][i].storage_path # ""]_vars

\* C9: when a generation that passed its preconditions returns, the track of
\* its scene is not processing unless a video placeholder row with a job handle
\* and no url exists; a return with an error (500 of a single route, a failure
\* result of the batch helper) comes with the track's status failed.
C9_NeverLeftProcessing ==
  [][/\ \A r \in Slots :
          (req[r].op = "image" /\ req'[r].pc = "idle") =>
            /\ scenes'[req[r].scene].image_status # "processing"
            /\ resp'.code = 500 => scenes'[req[r].scene].image_status = "failed"
     /\ \A r \in Slots :
          (req[r].op = "video" /\ req'[r].pc = "idle") =>
            /\ \/ scenes'[req[r].scene].video_status # "processing"
               \/ \E i \in DOMAIN videos'[req[r].scene] :
                    /\ videos'[req[r].scene][i].task_id # 0
                    /\ videos'[req[r].scene][i].url = ""
            /\ resp'.code = 500 => scenes'[req[r].scene].video_status = "failed"
     /\ (batch.track = "images" /\ Len(batch'.results) = Len(batch.results) + 1) =>
          /\ scenes'[BatchScene].image_status # "processing"
          /\ ~batch'.results[Len(batch'.results)] =>
               scenes'[BatchScene].image_status = "failed"
     /\ (batch.track = "videos" /\ Len(batch'.results) = Len(batch.results) + 1) =>
          /\ \/ scenes'[BatchScene].video_status # "processing"
             \/ \E i \in DOMAIN videos'[BatchScene] :
                  /\ videos'[BatchScene][i].task_id # 0
                  /\ videos'[BatchScene][i].url = ""
          /\ ~batch'.results[Len(batch'.results)] =>
               scenes'[BatchScene].video_status = "failed"]_vars

\* The single image route has just answered 500 and the scene's image_status
\* is failed.
C9_Witness ==
  /\ resp.op = "image"
  /\ resp.code = 500
  /\ scenes[resp.scene].image_status = "failed"
  /\ images[resp.scene] = <<>>

\* C10: a video generation rejected for an unmet precondition or for a
\* missing image row writes nothing to the ledger: the single route's 400
\* comes with the scene rows unchanged, and the batch helper leaves the
\* video_status of a selected scene that has no image row as it was.
C10_RejectionWritesNothing ==
  [][/\ (resp'.op = "video" /\ resp'.code = 400) => scenes' = scenes
     /\ (/\ batch.track = "videos"
         /\ batch.pc \in {"mark", "image", "noimage"}
         /\ getLatestImage(BatchScene) = 0)
        => scenes'[BatchScene].video_status = scenes[BatchScene].video_status]_vars

\* C11: a ledger write of the data-access layer called by a principal who
\* does not own the project throws 'not found or access denied' and leaves
\* the scene rows and the video rows as they were.
C11_ForeignWriteChangesNothing ==
  [][(resp'.op \in DalWrites /\ resp'.user # ProjectOwner) =>
       /\ resp'.code = 404
       /\ scenes' = scenes
       /\ videos' = videos]_vars

\* Another principal's updateSceneVideoStatus has just thrown on a scene the
\* owner has already moved to completed.
C11_Witness ==
  /\ resp.op = "updateSceneVideoStatus"
  /\ resp.user = "other"
  /\ resp.code = 404
  /\ scenes[resp.scene].video_status = "completed"
  /\ videos[resp.scene][1].url # ""

\* C12: a batch run selects exactly the scenes that satisfy the precondition
\* of its track and whose status for the track is pending or failed: the
\* sweep it starts holds exactly those scenes, and it answers with an empty
\* selection only when there is none.
C12_SelectsPendingOrFailed ==
  [][/\ (batch.pc = "idle" /\ batch'.pc = "mark" /\ batch'.track = "images") =>
          {batch'.queue[i] : i \in DOMAIN batch'.queue} =
            {s \in LiveScenes : /\ scenes[s].description_confirmed
                                /\ scenes[s].image_status \in {"pending", "failed"}}
     /\ (batch.pc = "idle" /\ batch'.pc = "mark" /\ batch'.track = "videos") =>
          {batch'.queue[i] : i \in DOMAIN batch'.queue} =
            {s \in LiveScenes : /\ scenes[s].image_confirmed
                                /\ scenes[s].video_status \in {"pending", "failed"}}
     /\ (resp'.op = "images" /\ resp'.code = 200) =>
          ~\E s \in LiveScenes : /\ scenes[s].description_confirmed
                                 /\ scenes[s].image_status \in {"pending", "failed"}
     /\ (resp'.op = "videos" /\ resp'.code = 200) =>
          ~\E s \in LiveScenes : /\ scenes[s].image_confirmed
                                 /\ scenes[s].video_status \in {"pending", "failed"}]_vars

\* C13: a failure of one scene does not end the sweep.  A batch route answers
\* 200 or 201 only; its 201 comes with one result per selected scene, with
\* successCount + failedCount equal to their number, with the track's status
\* failed on every scene reported as failed and with image_status completed
\* on every scene an image sweep reports as succeeded.
C13_PartialFailureKeepsSweeping ==
  [][(resp'.op \in {"images", "videos"}) =>
       /\ resp'.code \in {200, 201}
       /\ resp'.code = 201 =>
            /\ Len(batch.results) = Len(batch.queue)
            /\ successCount + failedCount = Len(batch.queue)
            /\ \A i \in DOMAIN batch.queue :
                 /\ (~batch.results[i] /\ batch.track = "images") =>
                      scenes'[batch.queue[i]].image_status = "failed"
                 /\ (~batch.results[i] /\ batch.track = "videos") =>
                      scenes'[batch.queue[i]].video_status = "failed"
                 /\ (batch.results[i] /\ batch.track = "images") =>
                      scenes'[batch.queue[i]].image_status = "completed"]_vars

\* An image sweep over every scene is about to answer: its first scene
\* failed and its last scene succeeded.
C13_Witness ==
  /\ batch.pc = "tally"
  /\ batch.track = "images"
  /\ Len(batch.queue) = MaxSceneId
  /\ ~batch.results[1]
  /\ batch.results[Len(batch.queue)]
  /\ scenes[batch.queue[1]].image_status = "failed"

\* C14: a confirm operation on a scene whose flag of that track is already
\* true answers 200 and leaves the scene row as it was.
C14_ConfirmIsIdempotent ==
  [][\A s \in LiveScenes :
       (/\ resp'.op \in {"cdesc", "cimage", "cvideo"}
        /\ resp'.scene = s
        /\ CASE resp'.op = "cdesc" -> scenes[s].description_confirmed
             [] resp'.op = "cimage" -> scenes[s].image_confirmed
             [] resp'.op = "cvideo" -> scenes[s].video_confirmed)
       => /\ resp'.code = 200
          /\ scenes'[s] = scenes[s]]_vars

\* C15: a confirmed flag of a track goes from false to true only on a scene
\* whose status of that track is completed at that step.
C15_ConfirmOnlyCompleted ==
  [][\A s \in LiveScenes :
       /\ (~scenes[s].image_confirmed /\ scenes'[s].image_confirmed) =>
            (scenes[s].image_status = "completed" /\ scenes'[s].image_status = "completed")
       /\ (~scenes[s].video_confirmed /\ scenes'[s].video_confirmed) =>
            (scenes[s].video_status = "completed" /\ scenes'[s].video_status = "completed")]_vars

\* C16: a generation handler answers by error class: an unmet precondition
\* 400, a scene that is missing or not the caller's 404, and a failure of the
\* upstream provider (an AIGenerationError) 502.
C16_ErrorClasses ==
  [][\A r \in Slots :
       /\ (/\ req[r].op \in {"image", "video"} /\ req[r].pc = "fail"
           /\ req[r].err = "ai" /\ Live(req[r].scene) /\ req'[r] = IdleReq)
          => resp'.code = 502
       /\ (resp'.op \in {"image", "video"} /\ ~Live(resp'.scene))
          => resp'.code = 404
       /\ (/\ req' = req /\ resp'.op = "image" /\ Live(resp'.scene)
           /\ ~ImagePrecondition(resp'.scene))
          => resp'.code = 400]_vars

\* C17: whatever task status the vendor answers, getVideoTaskStatus returns
\* one of pending, processing, completed, failed: SUCCEEDED becomes completed,
\* FAILED becomes failed, PENDING and RUNNING a status that is not terminal,
\* and no other value leaves the adapter.
C17_AdapterReturnsJobStatus ==
  [][(resp'.op = "getVideoTaskStatus" /\ resp'.status # "AIGenerationError")
       => /\ resp'.status \in MediaStatus
          /\ getVideoTaskStatus("SUCCEEDED") = "completed"
          /\ getVideoTaskStatus("FAILED") = "failed"
          /\ getVideoTaskStatus("PENDING") \in {"pending", "processing"}
          /\ getVideoTaskStatus("RUNNING") \in {"pending", "processing"}]_vars

\* C18: retry(fn, 3, delay) around a provider request invokes fn at most 3
\* times, returns at the first success, sleeps between two attempts and not
\* after the last one, hands on the last failure as an AIGenerationError after
\* 3 failures, and goes to another attempt only after a transient failure.
C18_RetryBudget ==
  [][\A r \in Slots :
       (req[r].op \in AdapterFns /\ req[r].pc = "try" /\ req'[r] # req[r])
         => /\ req[r].calls < 3
            /\ req[r].sleeps = req[r].calls
            /\ req'[r].pc \in {"idle", "sleep"}
            /\ (req'[r].pc = "idle" /\ resp'.status = "AIGenerationError")
                 => req[r].calls = 2
            /\ req'[r].pc = "sleep"
                 => req[r].calls < 2 /\ Transient(req'[r].err)]_vars

\* C19: one batch invocation works through its scenes in ascending
\* order_index, and it turns to the next scene (the write of processing, then
\* the provider call) only when every scene before it has its terminal
\* outcome, completed or failed, written.
C19_BatchIsSequential ==
  [][(batch.pc = "mark" /\ batch'.pc \in {"called", "image"})
       => /\ \A j, k \in 1..Len(batch.queue) : j < k => batch.queue[j] < batch.queue[k]
          /\ \A j \in 1..Len(batch.results) :
               (IF batch.track = "images"
                THEN scenes[batch.queue[j]].image_status
                ELSE scenes[batch.queue[j]].video_status) \in {"completed", "failed"}]_vars

C21_ArtifactsWrittenOnce ==
  [][\A s \in SceneIds :
       /\ Len(images'[s]) >= Len(images[s])
       /\ SubSeq(images'[s], 1, Len(images[s])) = images[s]
       /\ \A i \in 1..Len(videos[s]) :
            /\ i <= Len(videos'[s])
            /\ videos[s][i].url # "" => videos'[s][i] = videos[s][i]
            /\ videos'[s][i] # videos[s][i]
                 => /\ videos'[s][i].url # "" /\ videos'[s][i].storage_path # ""
                    /\ videos'[s][i].task_id = videos[s][i].task_id
                    /\ videos'[s][i].version = videos[s][i].version
                    /\ \E r \in Slots : req[r].op = "poll"
                                        /\ req[r].task = videos[s][i].task_id]_vars

\* C22: a status request changes state only when the vendor's status is
\* terminal: on pending or processing the scenes and the video rows stay as
\* they are, and on failed the scene's video_status becomes failed and the
\* video rows stay as they are.
C22_PollWritesOnlyOnTerminal ==
  [][(resp'.op = "poll" /\ resp'.code = 200)
       => /\ resp'.status \in {"pending", "processing"}
               => scenes' = scenes /\ videos' = videos
          /\ resp'.status = "failed"
               => /\ scenes' = [scenes EXCEPT ![resp'.scene].video_status = "failed"]
                  /\ videos' = videos]_vars

C22_Witness ==
  /\ resp.op = "poll" /\ resp.code = 200 /\ resp.status = "failed"
  /\ scenes[resp.scene].video_status = "failed"
  /\ Len(videos[resp.scene]) >= 1 /\ videos[resp.scene][1].url = ""

\* C23: the page keeps at most one interval set; a tick polls every scene
\* that is processing with a job handle; the tick at which no scene is
\* processing clears the interval, and a tick at which a scene with a job
\* handle is processing leaves it set.
C23_OnePollingTimer ==
  [][/\ Cardinality(client'.timers) <= 1
     /\ client'.timers = IF client'.pollingRef = 0 THEN {} ELSE {client'.pollingRef}
     /\ client'.ev = "tick"
          => LET processing == {s \in client.list : client.video_status[s] = "processing"}
                 handled == {s \in processing : client.task_id[s]}
             IN /\ client'.polled = handled
                /\ handled \subseteq client'.polling
                /\ processing = {} => client'.timers = {}
                /\ handled # {} => client'.timers = client.timers /\ client'.timers # {}]_vars

C23_Witness ==
  /\ client.ev = "tick"
  /\ client.timers = {}
  /\ \E s \in client.list : client.video_status[s] = "completed"
  /\ \A s \in client.list : client.video_status[s] # "processing"

\* C24: when a scene generation or regeneration answers 201, the scenes of the
\* project are exactly the ones it has just created, each of them with
\* description_confirmed, image_confirmed and video_confirmed false and both
\* statuses pending, and the stage of the project is scenes.
C24_GenerationReplacesScenes ==
  [][\A r \in Slots :
       (req[r].op \in {"scenes", "regen"} /\ req[r].pc = "stage" /\ resp'.code = 201)
         => /\ {s \in SceneIds : scenes'[s].live} = (nextId - req[r].count)..(nextId - 1)
            /\ \A s \in SceneIds : scenes'[s].live => scenes'[s] = NewScene
            /\ \A s \in SceneIds : ~scenes'[s].live => images'[s] = <<>> /\ videos'[s] = <<>>
            /\ stage' = "scenes"]_vars

C24_Witness ==
  /\ resp.op \in {"scenes", "regen"} /\ resp.code = 201
  /\ stage = "scenes"
  /\ LiveScenes = {2}
  /\ scenes[2] = NewScene

\* C25: the description of a scene can be changed only until it is confirmed:
\* once description_confirmed is true no request changes the description of
\* that scene, and description_confirmed does not go back to false while the
\* scene exists.
C25_ConfirmedDescriptionIsFrozen ==
  [][\A s \in SceneIds :
       (scenes[s].live /\ scenes[s].description_confirmed /\ scenes'[s].live)
         => /\ scenes'[s].description = scenes[s].description
            /\ scenes'[s].description_confirmed]_vars

\* C26: confirm-all-videos sets the stage to completed only when the project
\* has a scene and the video_status of every scene is completed; otherwise it
\* answers 400 and changes no video_confirmed flag and not the stage.  When it
\* answers 200 every scene of the project has video_confirmed true.
C26_ConfirmAllVideos ==
  [][LET ready == /\ \E s \in SceneIds : scenes[s].live
                  /\ \A s \in SceneIds :
                       scenes[s].live => scenes[s].video_status = "completed"
     IN /\ (stage' = "completed" /\ stage # "completed") => ready
        /\ (\E r \in Slots : req[r].op = "none" /\ req'[r].op = "callvideos") => ready
        /\ (resp'.op = "callvideos" /\ resp'.code # 200)
             => ~ready /\ resp'.code = 400 /\ scenes' = scenes /\ stage' = stage
        /\ (resp'.op = "callvideos" /\ resp'.code = 200)
             => /\ stage' = "completed"
                /\ \E s \in SceneIds : scenes'[s].live
                /\ \A s \in SceneIds : scenes'[s].live => scenes'[s].video_confirmed]_vars

C26_Witness ==
  /\ resp.op = "callvideos" /\ resp.code = 200
  /\ stage = "completed"
  /\ LiveScenes = SceneIds
  /\ \A s \in SceneIds : scenes[s].video_confirmed /\ scenes[s].video_status = "completed"

\* C27: the versions of a scene's artifacts of one track are all different,
\* whatever the interleaving of createImage (createVideo) calls on the scene,
\* so one artifact only has the maximum version.
C27_VersionsUnique ==
  \A s \in SceneIds :
    /\ \A i, j \in DOMAIN images[s] : i # j => images[s][i] # images[s][j]
    /\ \A i, j \in DOMAIN videos[s] :
         i # j => videos[s][i].version # videos[s][j].version

\* C28: a scene whose video_status is completed has a stored file in its
\* latest video row, the one with the highest version: the reconciliation of
\* the job of an older row does not complete the scene while the job of a newer
\* row is in flight.
C28_CompletedMeansLatestStored ==
  \A s \in SceneIds :
    (scenes[s].live /\ scenes[s].video_status = "completed")
      => /\ videos[s] # <<>>
         /\ \A i \in DOMAIN videos[s] :
              videos[s][i].version = MaxOf(VideoVersions(s)) => videos[s][i].url # ""

\* C29: a track whose confirmed flag is true has status completed: once
\* image_confirmed (video_confirmed) is set, no generation request takes the
\* status of that track to processing or failed while the flag is true.
C29_ConfirmedIsCompleted ==
  \A s \in SceneIds :
    scenes[s].live
      => /\ scenes[s].image_confirmed => scenes[s].image_status = "completed"
         /\ scenes[s].video_confirmed => scenes[s].video_status = "completed"

\* C30: a scene generation or regeneration is all or nothing: when the
\* provider fails the request answers an error and the scenes, their artifacts
\* and the stage are as they were; and a request that has deleted the old
\* scenes answers with new scenes in place and the stage at scenes.
C30_GenerationAllOrNothing ==
  [][\A r \in Slots :
       (req[r].op \in {"scenes", "regen"} /\ req'[r] = IdleReq)
         => /\ req[r].pc = "provider"
                 => /\ resp'.code = 500
                    /\ scenes' = scenes /\ images' = images /\ videos' = videos
                    /\ stage' = stage
            /\ (req[r].pc \in {"create", "stage"} /\ req[r].deletedCount > 0)
                 => /\ \E s \in SceneIds : scenes'[s].live
                    /\ stage' = "scenes"]_vars

====
